---- MODULE Spec2Model ----
(***************************************************************************)
(* TryFilterMap (futures-util/src/try_stream/try_filter_map.rs): a stream  *)
(* combinator that pulls Result items from an upstream stream, hands each  *)
(* Ok item to a callback returning a future, and drives at most one such   *)
(* future at a time.  The model covers the struct's three fields, new()    *)
(* and the whole poll_next loop; the upstream stream and the futures are   *)
(* collaborators whose answers (including "not ready") are inputs.         *)
(***************************************************************************)
EXTENDS Integers, Sequences, FiniteSets, TLC

\* ------------------------------------------------------------------ bounds
MaxLen    == 3     \* longest scripted upstream
MaxStalls == 1     \* how many "not ready" answers the collaborators give
MaxCalls  == 5     \* how many poll_next calls may return Ready
MaxAccLen == 2     \* longest scripted upstream where the accessors are called too
MaxLoopLen == 2    \* longest scripted upstream where the loop is followed turn by turn
MaxIter   == 5     \* callback invocations followed on an upstream that never ends

\* ------------------------------------------------------------- data model
\* St::Ok is a type parameter the combinator never inspects: three distinct
\* payloads, the ones of the documented scenarios.
Values == {1, 2, 3}
NoErr  == ""

\* St::Ok / St::Error as seen through try_poll_next: Some(Ok(x)), Some(Err(e)),
\* None.  The script may hold a None in the middle: a stream need not be fused.
OkItem(x)  == [tag |-> "Ok",   val |-> x, err |-> NoErr]
ErrItem(e) == [tag |-> "Err",  val |-> 0, err |-> e]
EndItem    == [tag |-> "Done", val |-> 0, err |-> NoErr]
UpstreamItems == {OkItem(x) : x \in Values} \cup {ErrItem("x")} \cup {EndItem}

\* Fut::Ok = Option<T>, Fut::Error = St::Error: what a future resolves to.
OkSome(v)  == [tag |-> "Some", val |-> v, err |-> NoErr]
OkNone     == [tag |-> "None", val |-> 0, err |-> NoErr]
FutErr(e)  == [tag |-> "Err",  val |-> 0, err |-> e]
\* Every payload can be kept (doubled), dropped or failed; payload 2 can also
\* be kept as 20, as in the documented scenario.
FutResults(x) ==
    {OkSome(2 * x), OkNone, FutErr("bad")} \cup (IF x = 2 THEN {OkSome(20)} ELSE {})

\* Poll<Option<Result<T, St::Error>>>: what poll_next returns.
ReadyOk(v)  == [tag |-> "Ok",      val |-> v, err |-> NoErr]
ReadyErr(e) == [tag |-> "Err",     val |-> 0, err |-> e]
ReadyNone   == [tag |-> "Done",    val |-> 0, err |-> NoErr]
PollPending == [tag |-> "Suspend", val |-> 0, err |-> NoErr]
NoReturn    == [tag |-> "Loop",    val |-> 0, err |-> NoErr]

\* Option<Fut>: the empty sequence is None, a one-element sequence is Some(fut).
None      == << >>
Some(fut) == << fut >>

RECURSIVE SeqsUpTo(_, _)
SeqsUpTo(set, n) ==
    IF n = 0 THEN { << >> }
    ELSE LET shorter == SeqsUpTo(set, n - 1)
         IN  shorter \cup {Append(s, i) : s \in {t \in shorter : Len(t) = n - 1}, i \in set}

VARIABLES
    stream,    \* field `stream`: the upstream, as the answers it has yet to give
    f,         \* field `f`: the callback, St::Ok -> Fut
    pending,   \* field `pending`: Option<Fut>
    S,         \* the upstream as it was handed to new()
    stalls,    \* "not ready" answers the collaborators may still give
    out,       \* every Poll::Ready(..) that poll_next returned, in call order
    ret,       \* what the latest poll_next call returned (NoReturn: none yet)
    trace,     \* what the latest poll_next call did, step by step
    fcalls,    \* the items the callback has been invoked with, in order
    got,       \* what the accessor called since the latest poll_next returned
    unbounded  \* TRUE: the upstream repeats its script for ever

vars == <<stream, f, pending, S, stalls, out, ret, trace, fcalls, got, unbounded>>

\* ------------------------------------------------------------ collaborators
\* St::try_poll_next: the head of the script, None for ever once it ran out.
try_poll_next(st) ==
    IF st = << >> THEN [ans |-> EndItem, rest |-> st]
    ELSE [ans |-> Head(st), rest |-> Tail(st)]

\* (self.f())(item): the future created for item x; id numbers the futures.
call_f(fn, x, id) == [id |-> id, item |-> x, res |-> fn[x]]

\* Fut::try_poll on a future that is ready.
try_poll(fut) == fut.res

\* ------------------------------------------------------------- trace events
StreamEv(slot, ans) == [op |-> "stream", slot |-> slot, ans |-> ans, id |-> 0]
CallEv(slot, x)     == [op |-> "f",      slot |-> slot, ans |-> OkItem(x), id |-> 0]
FutEv(slot, ans)    == [op |-> "fut",    slot |-> slot, ans |-> ans, id |-> slot[1].id]

\* ------------------------------------------------------------- poll_next
\* Faulty variants of the definitions below, each changed the way a slip in
\* the code would change it; each property at the end fails against one.
is_none_unchecked(slot) == TRUE
pending_dropped_if_not_ready(slot) == None
ready_return_done == ReadyNone
match_item_err_ends(ans) ==
    CASE ans.tag = "Ok"   -> NoReturn
      [] ans.tag = "Err"  -> ReadyNone
      [] ans.tag = "Done" -> ReadyNone
match_item_ok_passes(ans) ==
    CASE ans.tag = "Ok"   -> ReadyOk(ans.val)
      [] ans.tag = "Err"  -> ReadyErr(ans.err)
      [] ans.tag = "Done" -> ReadyNone
match_item_done_pends(ans) ==
    CASE ans.tag = "Ok"   -> NoReturn
      [] ans.tag = "Err"  -> ReadyErr(ans.err)
      [] ans.tag = "Done" -> PollPending
pending_kept_on_some(slot, result) == IF result.tag = "Some" THEN slot ELSE None
pending_kept_on_err(slot, result)  == IF result.tag = "Err" THEN slot ELSE None
match_result_err_swallowed(result) ==
    CASE result.tag = "Some" -> ReadyOk(result.val)
      [] result.tag = "Err"  -> NoReturn
      [] result.tag = "None" -> NoReturn
match_result_none_pends(result) ==
    CASE result.tag = "Some" -> ReadyOk(result.val)
      [] result.tag = "Err"  -> ReadyErr(result.err)
      [] result.tag = "None" -> PollPending

\* `self.pending().as_pin_mut().is_none()`
is_none(slot) == slot = None

\* The slot when `ready!` returns early on the future's Poll::Pending: the
\* future was borrowed in place (as_pin_mut) and the set(.., None) is not reached.
pending_if_not_ready(slot) == slot

\* `ready!(..)`: a Poll::Pending answer makes poll_next return Poll::Pending.
ready_return == PollPending

\* The match on the upstream's answer: what poll_next returns, or NoReturn
\* when the item goes on to the callback.
match_item(ans) ==
    CASE ans.tag = "Ok"   -> NoReturn
      [] ans.tag = "Err"  -> ReadyErr(ans.err)
      [] ans.tag = "Done" -> ReadyNone

\* `PinMut::set(self.pending(), None)` once the future has resolved to result.
pending_after(slot, result) == None

\* The match on the future's result: what poll_next returns, or NoReturn when
\* the loop goes round again.
match_result(result) ==
    CASE result.tag = "Some" -> ReadyOk(result.val)
      [] result.tag = "Err"  -> ReadyErr(result.err)
      [] result.tag = "None" -> NoReturn

\* The loop's state is c: the three fields, what the call has done so far
\* (trace, fcalls), how many polls it has made, and its return value once it
\* has one.  stall = n > 0 makes the n-th poll of the call answer "not ready".

\* `if self.pending().as_pin_mut().is_none() { .. }`
pull_upstream(c, stall) ==
    IF ~is_none(c.pending) THEN c
    ELSE IF c.polls + 1 = stall
    THEN [c EXCEPT !.polls = @ + 1,
                   !.trace = Append(@, StreamEv(c.pending, PollPending)),
                   !.ret   = ready_return]
    ELSE LET p == try_poll_next(c.stream)
             m == match_item(p.ans)
         IN  IF m # NoReturn
             THEN [c EXCEPT !.polls  = @ + 1,
                            !.stream = p.rest,
                            !.trace  = Append(@, StreamEv(c.pending, p.ans)),
                            !.ret    = m]
             ELSE LET x   == p.ans.val
                      fut == call_f(c.f, x, Len(c.fcalls) + 1)
                  IN  [c EXCEPT !.polls   = @ + 1,
                                !.stream  = p.rest,
                                !.fcalls  = Append(@, x),
                                !.pending = Some(fut),
                                !.trace   = @ \o << StreamEv(c.pending, p.ans),
                                                    CallEv(c.pending, x) >>]

\* `let result = ready!(..try_poll(cx)); PinMut::set(.., None); match result`
drive_pending(c, stall) ==
    IF c.polls + 1 = stall
    THEN [c EXCEPT !.polls   = @ + 1,
                   !.pending = pending_if_not_ready(c.pending),
                   !.trace   = Append(@, FutEv(c.pending, PollPending)),
                   !.ret     = ready_return]
    ELSE LET result == try_poll(c.pending[1])
         IN  [c EXCEPT !.polls   = @ + 1,
                       !.pending = pending_after(c.pending, result),
                       !.trace   = Append(@, FutEv(c.pending, result)),
                       !.ret     = match_result(result)]

\* One turn of the loop body.
loop_turn(c, stall) ==
    LET a == pull_upstream(c, stall)
    IN  IF a.ret # NoReturn THEN a ELSE drive_pending(a, stall)

\* `loop { .. }`
RECURSIVE poll_loop(_, _)
poll_loop(c, stall) ==
    LET b == loop_turn(c, stall)
    IN  IF b.ret # NoReturn THEN b ELSE poll_loop(b, stall)

\* One call of poll_next on the current state.
poll_next(stall) ==
    poll_loop([stream |-> stream, f |-> f, pending |-> pending,
               fcalls |-> fcalls, trace |-> << >>, polls |-> 0,
               ret |-> NoReturn], stall)

\* -------------------------------------------------------------- accessors
\* The combinator as a value: its three fields.
Self == [stream |-> stream, f |-> f, pending |-> pending]

\* What an accessor hands back: the upstream st, and the slot it found.
NoAccess == [op |-> "none", st |-> << >>, slot |-> None]
Access(op, st, slot) == [op |-> op, st |-> st, slot |-> slot]

get_mut_resets(self) == [self |-> [self EXCEPT !.pending = None], st |-> self.stream]
into_inner_requeues(self) ==
    (IF self.pending = None THEN << >> ELSE << OkItem(self.pending[1].item) >>) \o self.stream

\* `pub fn get_ref(&self) -> &St { &self.stream }`: the combinator after the
\* call, and the upstream the reference points to.
get_ref(self) == [self |-> self, st |-> self.stream]

\* `pub fn get_mut(&mut self) -> &mut St { &mut self.stream }`
get_mut(self) == [self |-> self, st |-> self.stream]

\* `pub fn into_inner(self) -> St { self.stream }`: the upstream moved out; f
\* and pending are dropped with self.
into_inner(self) == self.stream

\* ---------------------------------------------------------- specification
\* The payloads a script can hand to the callback.
Payloads(s) == {s[i].val : i \in {j \in DOMAIN s : s[j].tag = "Ok"}}

\* The callbacks worth telling apart on script s: any result for a payload of
\* s; what f would answer for a payload s never yields cannot be observed, so
\* it is fixed to Ok(None).
Callbacks(s) ==
    {fn \in [Values -> UNION {FutResults(x) : x \in Values}] :
        \A x \in Values : /\ fn[x] \in FutResults(x)
                          /\ x \notin Payloads(s) => fn[x] = OkNone}

\* TryFilterMap::new(stream, f) for the script S: any callback, slot empty.
New ==
    /\ stream = S
    /\ f \in Callbacks(S)
    /\ pending = None
    /\ stalls = MaxStalls
    /\ out = << >>
    /\ ret = NoReturn
    /\ trace = << >>
    /\ fcalls = << >>
    /\ got = NoAccess

\* Any scripted upstream.
Init ==
    /\ S \in SeqsUpTo(UpstreamItems, MaxLen)
    /\ unbounded = FALSE
    /\ New

\* The scheduler calls poll_next; the call runs to its return.
PollNext ==
    /\ got.op # "into_inner"
    /\ Len(out) < MaxCalls
    /\ \E stall \in 0 .. (IF stalls > 0 THEN poll_next(0).polls ELSE 0) :
          \* stall = 0: every collaborator polled in this call is ready
          /\ LET r == poll_next(stall)
             IN  /\ stream'  = r.stream
                 /\ pending' = r.pending
                 /\ fcalls'  = r.fcalls
                 /\ trace'   = r.trace
                 /\ ret'     = r.ret
                 /\ out'     = IF r.ret = PollPending THEN out ELSE Append(out, r.ret)
                 /\ stalls'  = IF stall > 0 /\ r.polls >= stall THEN stalls - 1 ELSE stalls
    /\ got' = NoAccess
    /\ UNCHANGED <<S, f, unbounded>>

Next == PollNext

Spec == Init /\ [][Next]_vars

\* The caller borrows the upstream between two poll_next calls.
GetRef ==
    /\ got.op # "into_inner"
    /\ LET r == get_ref(Self)
       IN  /\ stream'  = r.self.stream
           /\ f'       = r.self.f
           /\ pending' = r.self.pending
           /\ got'     = Access("get_ref", r.st, pending)
    /\ UNCHANGED <<S, stalls, out, ret, trace, fcalls, unbounded>>

\* The caller borrows the upstream mutably and leaves it as it is.
GetMut ==
    /\ got.op # "into_inner"
    /\ LET r == get_mut(Self)
       IN  /\ stream'  = r.self.stream
           /\ f'       = r.self.f
           /\ pending' = r.self.pending
           /\ got'     = Access("get_mut", r.st, pending)
    /\ UNCHANGED <<S, stalls, out, ret, trace, fcalls, unbounded>>

\* The caller takes the upstream back; the combinator is gone, and with it
\* the callback and whatever future the slot held.
IntoInner ==
    /\ got.op # "into_inner"
    /\ got' = Access("into_inner", into_inner(Self), pending)
    /\ stream' = << >>
    /\ pending' = None
    /\ UNCHANGED <<S, f, stalls, out, ret, trace, fcalls, unbounded>>

InitAcc ==
    /\ S \in SeqsUpTo(UpstreamItems, MaxAccLen)
    /\ unbounded = FALSE
    /\ New

NextAcc == PollNext \/ GetRef \/ GetMut \/ IntoInner

\* poll_next interleaved with the accessors.
SpecAcc == InitAcc /\ [][NextAcc]_vars

\* poll_next followed one turn of its loop at a time, so that a call that
\* does not return can be watched.  While a call is under way ret is NoReturn
\* and trace holds what the call has done so far; a turn taken after a return
\* is the first turn of the next call.
LoopTurn ==
    /\ Len(out) < MaxCalls
    /\ Len(fcalls) < MaxIter
    /\ LET c == [stream |-> stream, f |-> f, pending |-> pending, fcalls |-> fcalls,
                 trace |-> IF ret = NoReturn THEN trace ELSE << >>,
                 polls |-> 0, ret |-> NoReturn]
       IN  \E stall \in 0 .. (IF stalls > 0 /\ ~unbounded THEN loop_turn(c, 0).polls ELSE 0) :
              LET r == loop_turn(c, stall)
              IN  /\ stream'  = IF unbounded /\ r.stream = << >> THEN S ELSE r.stream
                  /\ pending' = r.pending
                  /\ fcalls'  = r.fcalls
                  /\ trace'   = r.trace
                  /\ ret'     = r.ret
                  /\ out'     = IF r.ret \in {NoReturn, PollPending} THEN out
                                 ELSE Append(out, r.ret)
                  /\ stalls'  = IF stall > 0 THEN stalls - 1 ELSE stalls
    /\ UNCHANGED <<S, f, got, unbounded>>

\* Any scripted upstream, finite or repeated for ever; the one repeated for
\* ever and its futures are always ready (LoopTurn).
InitLoop ==
    /\ S \in SeqsUpTo(UpstreamItems, MaxLoopLen)
    /\ unbounded \in BOOLEAN
    /\ unbounded => S # << >>
    /\ New

NextLoop == LoopTurn

SpecLoop == InitLoop /\ [][NextLoop]_vars

\* A finite upstream: items, then end-of-sequence for ever.
InitLive ==
    /\ S \in SeqsUpTo(UpstreamItems \ {EndItem}, MaxLoopLen)
    /\ unbounded = FALSE
    /\ New

\* The loop takes its next turn and the scheduler calls poll_next again after
\* every return, whenever they can; the collaborators answer "not ready" only
\* finitely often (the stalls left run out).
SpecLive == InitLive /\ [][NextLoop]_vars /\ WF_vars(LoopTurn)

\* -------------------------------------------------------------- properties
Last(s)  == s[Len(s)]
Count(s, e) == Cardinality({i \in DOMAIN s : s[i] = e})

\* The answers the upstream has given so far.
Consumed == SubSeq(S, 1, Len(S) - Len(stream))

\* The script up to its first end-of-sequence.
RECURSIVE UpToFirstEnd(_)
UpToFirstEnd(s) ==
    IF s = << >> \/ Head(s) = EndItem THEN << >>
    ELSE << Head(s) >> \o UpToFirstEnd(Tail(s))

\* The order-preserving projection of a script through the callback fn.
RECURSIVE Project(_, _)
Project(fn, s) ==
    IF s = << >> THEN << >>
    ELSE LET i == Head(s)
             y == IF i.tag = "Err" THEN << ReadyErr(i.err) >>
                  ELSE IF fn[i.val].tag = "Some" THEN << ReadyOk(fn[i.val].val) >>
                  ELSE IF fn[i.val].tag = "Err" THEN << ReadyErr(fn[i.val].err) >>
                  ELSE << >>
         IN  y \o Project(fn, Tail(s))

\* The items yielded before the first end-of-sequence.
RECURSIVE Yielded(_)
Yielded(o) ==
    IF o = << >> \/ Head(o) = ReadyNone THEN << >>
    ELSE << Head(o) >> \o Yielded(Tail(o))

Ended == \E i \in DOMAIN out : out[i] = ReadyNone

\* C1: the items yielded up to the first end-of-sequence are the
\* order-preserving projection of the upstream through the callback: upstream
\* errors in place, kept values mapped, task errors in place, drops omitted;
\* before the end, what has been yielded is the projection of what has been
\* consumed and resolved.
C1_Projection ==
    /\ Ended => Yielded(out) = Project(f, UpToFirstEnd(S))
    /\ ~Ended => out = Project(f, SubSeq(S, 1, Len(Consumed) - Len(pending)))

C1_Witness ==
    /\ Ended
    /\ Len(UpToFirstEnd(S)) = MaxLen
    /\ Len(Yielded(out)) = 2
    /\ \E i \in DOMAIN out : out[i].tag = "Err"
    /\ \E i \in DOMAIN out : out[i].tag = "Ok"
    /\ stalls < MaxStalls

\* C2: the slot holds at most one future, and the upstream is polled and the
\* callback invoked only while the slot is empty.
C2_OneTaskNoPullWhilePending ==
    /\ Len(pending) <= 1
    /\ \A i \in DOMAIN trace :
          trace[i].op \in {"stream", "f"} => trace[i].slot = None

C2_Witness ==
    /\ Len(trace) >= 2
    /\ trace[1].op = "fut"
    /\ trace[1].slot # None
    /\ trace[2].op = "stream"

\* What the upstream may answer to the next poll.
NextAnswers == {PollPending, try_poll_next(stream).ans}

\* The next call starts by polling the upstream with the slot empty, and it
\* returns an error or end-of-sequence only on a fresh answer saying so.
NextCallPullsUpstream ==
    /\ trace'[1].op = "stream"
    /\ trace'[1].slot = None
    /\ trace'[1].ans \in NextAnswers
    /\ ret'.tag = "Err" => Last(trace').ans.tag = "Err"
    /\ ret'.tag = "Done" => Last(trace') = StreamEv(None, EndItem)

ScenarioC ==
    (S = << ErrItem("x"), OkItem(2) >> /\ f[2] = OkSome(20) /\ Len(out) >= 2)
        => SubSeq(out, 1, 2) = << ReadyErr("x"), ReadyOk(20) >>

\* C3: after poll_next returns an error the slot is empty and the next call
\* polls the upstream again; the error neither repeats nor ends the stream.
C3_ErrorDoesNotDisable ==
    /\ [](ret.tag = "Err" => pending = None)
    /\ [][ret.tag = "Err" => NextCallPullsUpstream]_vars
    /\ []ScenarioC

C3_Witness ==
    /\ S = << ErrItem("x"), OkItem(2) >>
    /\ f[2] = OkSome(20)
    /\ out = << ReadyErr("x"), ReadyOk(20) >>

\* C4: an upstream Err(e) ends the call with exactly Err(e): the slot was and
\* stays empty, the callback is not invoked for it, and each upstream error
\* is yielded once.
C4_UpstreamErrPassesThrough ==
    /\ \A i \in DOMAIN trace :
          (trace[i].op = "stream" /\ trace[i].ans.tag = "Err") =>
              /\ i = Len(trace)
              /\ trace[i].slot = None
              /\ ret = ReadyErr(trace[i].ans.err)
              /\ Last(out) = ret
              /\ pending = None
    /\ Count(out, ReadyErr("x")) = Count(Consumed, ErrItem("x"))

C4_Witness ==
    /\ Len(trace) > 1
    /\ Last(trace).op = "stream"
    /\ Last(trace).ans = ErrItem("x")
    /\ Count(out, ReadyErr("x")) = 2

\* The futures created so far that have resolved to an error.
FailedTasks ==
    {i \in DOMAIN fcalls : f[fcalls[i]].tag = "Err" /\ (pending = None \/ pending[1].id # i)}

ScenarioB ==
    (S = << OkItem(1) >> /\ f[1] = FutErr("bad")) =>
        \A i \in DOMAIN out : out[i] = IF i = 1 THEN ReadyErr("bad") ELSE ReadyNone

\* C5: a future resolving Err(e) ends the call with exactly Err(e) and an
\* empty slot; each failed future yields its error once and is not retried.
C5_TaskErrClearsSlot ==
    /\ \A i \in DOMAIN trace :
          (trace[i].op = "fut" /\ trace[i].ans.tag = "Err") =>
              /\ i = Len(trace)
              /\ ret = ReadyErr(trace[i].ans.err)
              /\ Last(out) = ret
              /\ pending = None
    /\ Count(out, ReadyErr("bad")) = Cardinality(FailedTasks)
    /\ ScenarioB

C5_Witness ==
    /\ S = << OkItem(1) >>
    /\ f[1] = FutErr("bad")
    /\ out = << ReadyErr("bad"), ReadyNone >>

ScenarioA_f == [x \in Values |-> IF x = 2 THEN OkSome(4) ELSE OkNone]

ScenarioA ==
    (S = << OkItem(1), OkItem(2), OkItem(3) >> /\ f = ScenarioA_f /\ stalls = MaxStalls) =>
        /\ Len(out) >= 1 => out[1] = ReadyOk(4)
        /\ Len(out) = 1 => stream = << OkItem(3) >>
        /\ Len(out) >= 2 => (out[2] = ReadyNone /\ stream = << >>)

\* C6: a future resolving Ok(None) does not end the call (the upstream is
\* polled next, slot empty), a future is polled in the call that created it,
\* and a call whose collaborators were all ready returns a value, an error or
\* end-of-sequence.
C6_DropLoopsOn ==
    /\ \A i \in DOMAIN trace :
          /\ (trace[i].op = "fut" /\ trace[i].ans.tag = "None") =>
                /\ i < Len(trace)
                /\ trace[i + 1].op = "stream"
                /\ trace[i + 1].slot = None
          /\ trace[i].op = "f" =>
                /\ i < Len(trace)
                /\ trace[i + 1].op = "fut"
                /\ trace[i + 1].slot[1].item = trace[i].ans.val
    /\ (trace # << >> /\ Last(trace).ans # PollPending) => ret.tag \in {"Ok", "Err", "Done"}
    /\ ScenarioA

C6_Witness ==
    /\ S = << OkItem(1), OkItem(2), OkItem(3) >>
    /\ f = ScenarioA_f
    /\ stalls = MaxStalls
    /\ out = << ReadyOk(4), ReadyNone >>
    /\ Len(trace) = 4

\* C7: poll_next returns Poll::Pending exactly when the last poll it made,
\* of the upstream with the slot empty or of the pending future, answered
\* "not ready"; nothing is polled after such an answer.
C7_SuspendOnlyOnNotReady ==
    /\ trace # << >> => (ret = PollPending <=> Last(trace).ans = PollPending)
    /\ \A i \in DOMAIN trace :
          trace[i].ans = PollPending =>
              /\ i = Len(trace)
              /\ \/ trace[i].op = "stream" /\ trace[i].slot = None
                 \/ trace[i].op = "fut"

C7_Witness ==
    /\ ret = PollPending
    /\ Len(trace) >= 4
    /\ Last(trace).op = "stream"

\* The next call polls the future in the slot first, and invokes the callback
\* only for what it pulls itself.
NextCallResumesPending ==
    /\ trace'[1].op = "fut"
    /\ trace'[1].slot = pending
    /\ trace'[1].ans \in {PollPending, pending[1].res}
    /\ Len(fcalls') - Len(fcalls) = Cardinality({i \in DOMAIN trace' : trace'[i].op = "f"})
    /\ SubSeq(fcalls', 1, Len(fcalls)) = fcalls

\* C8: a future that is not ready stays in the slot when poll_next returns
\* Poll::Pending; the next call polls that future first, without polling the
\* upstream or invoking the callback before it; the item it was made from is
\* the last one pulled.
C8_ProgressAcrossSuspend ==
    /\ []((trace # << >> /\ Last(trace).op = "fut" /\ Last(trace).ans = PollPending) =>
             (ret = PollPending /\ pending = Last(trace).slot))
    /\ [](pending # None =>
             (Consumed # << >> /\ Last(Consumed) = OkItem(pending[1].item)
                /\ Last(fcalls) = pending[1].item /\ pending[1].id = Len(fcalls)))
    /\ [][pending # None => NextCallResumesPending]_vars

C8_Witness ==
    /\ pending = None
    /\ Len(trace) >= 2
    /\ trace[1].op = "fut"
    /\ trace[1].ans.tag = "None"
    /\ stalls < MaxStalls

\* The payloads of the Ok items of a script, in order.
RECURSIVE OkPayloads(_)
OkPayloads(s) ==
    IF s = << >> THEN << >>
    ELSE (IF Head(s).tag = "Ok" THEN << Head(s).val >> ELSE << >>) \o OkPayloads(Tail(s))

\* C9: the callback is invoked once for each Ok item pulled, in order and
\* right after the pull, and for nothing else.
C9_CallbackOncePerOkItem ==
    /\ fcalls = OkPayloads(Consumed)
    /\ \A i \in DOMAIN trace :
          /\ (trace[i].op = "stream" /\ trace[i].ans.tag = "Ok") =>
                (i < Len(trace) /\ trace[i + 1] = CallEv(None, trace[i].ans.val))
          /\ trace[i].op = "f" =>
                (i > 1 /\ trace[i - 1] = StreamEv(None, trace[i].ans))

C9_Witness ==
    /\ Len(fcalls) = 2
    /\ Len(Consumed) = MaxLen
    /\ \E i \in DOMAIN Consumed : Consumed[i].tag = "Err"
    /\ trace # << >>
    /\ trace[1].op = "fut"

\* The next call polls the upstream, slot empty, and acts on its answer as
\* from Idle.
NextCallFromIdle ==
    /\ trace'[1].op = "stream"
    /\ trace'[1].slot = None
    /\ trace'[1].ans \in NextAnswers
    /\ trace'[1].ans = PollPending => ret' = PollPending
    /\ trace'[1].ans.tag = "Err" => ret' = ReadyErr(trace'[1].ans.err)
    /\ trace'[1].ans.tag = "Done" => ret' = ReadyNone
    /\ trace'[1].ans.tag = "Ok" =>
          /\ Len(trace') >= 3
          /\ trace'[2] = CallEv(None, trace'[1].ans.val)
          /\ trace'[3].op = "fut"

\* C10: an exhausted upstream, polled with the slot empty, ends the call with
\* end-of-sequence and the slot still empty; the call after an end-of-sequence
\* polls the upstream again and follows its answer.
C10_NoTerminalState ==
    /\ [](\A i \in DOMAIN trace :
             (trace[i].op = "stream" /\ trace[i].ans.tag = "Done") =>
                 /\ i = Len(trace)
                 /\ trace[i].slot = None
                 /\ ret = ReadyNone
                 /\ pending = None)
    /\ [][ret = ReadyNone => NextCallFromIdle]_vars

C10_Witness ==
    \E i \in DOMAIN out :
        /\ i < Len(out)
        /\ out[i] = ReadyNone
        /\ out[i + 1].tag = "Ok"

\* The projection of a script through fn that does not stop at an
\* end-of-sequence: each one in the script is a Ready(None).
RECURSIVE ProjectAll(_, _)
ProjectAll(fn, s) ==
    IF s = << >> THEN << >>
    ELSE (IF Head(s) = EndItem THEN << ReadyNone >> ELSE Project(fn, << Head(s) >>))
             \o ProjectAll(fn, Tail(s))

\* A step that is a call of get_ref or get_mut.
AccessorStep == got'.op \in {"get_ref", "get_mut"} /\ got' # got

\* C11: get_ref and get_mut, in any state, return the upstream as it is and
\* change neither the slot, the callback nor the upstream (nothing is polled,
\* nothing is returned by poll_next); with them interleaved, poll_next still
\* yields the projection of what it has consumed.
C11_AccessorsChangeNothing ==
    /\ [][AccessorStep =>
             /\ got'.st = stream
             /\ stream' = stream /\ f' = f /\ pending' = pending
             /\ UNCHANGED <<S, stalls, out, ret, trace, fcalls>>]_vars
    /\ [](got.op # "into_inner" =>
             (C1_Projection /\ fcalls = OkPayloads(Consumed)))

C11_Witness ==
    /\ got.op = "get_mut"
    /\ got.st = stream
    /\ pending # None
    /\ stream # << >>

\* C12: into_inner returns the upstream at its current position and ends the
\* combinator; a pending future is dropped as it is (last polled not ready),
\* and its item, already consumed, is neither among the items yielded nor in
\* the upstream returned.
C12_IntoInnerLosesPendingItem ==
    /\ [][(got'.op = "into_inner" /\ got.op # "into_inner") =>
             (got'.st = stream /\ got'.slot = pending /\ out' = out)]_vars
    /\ [][got.op = "into_inner" => UNCHANGED vars]_vars
    /\ [](got.op = "into_inner" =>
             LET k == Len(S) - Len(got.st)
             IN  /\ got.st = SubSeq(S, k + 1, Len(S))
                 /\ pending = None
                 /\ got.slot # None =>
                       /\ k >= 1
                       /\ S[k] = OkItem(got.slot[1].item)
                       /\ Last(trace) = FutEv(got.slot, PollPending)
                       /\ out = ProjectAll(f, SubSeq(S, 1, k - 1)))

C12_Witness ==
    /\ got.op = "into_inner"
    /\ got.slot # None
    /\ got.st # << >>
    /\ f[got.slot[1].item].tag = "Some"

\* C14: the slot starts empty, and when poll_next has returned it holds a
\* future exactly if the call returned Poll::Pending on that future's "not
\* ready"; after a value, an error, end-of-sequence or a Poll::Pending from
\* the upstream it is empty.
C14_SlotFullIffTaskNotReady ==
    /\ ret = NoReturn => (pending = None /\ trace = << >>)
    /\ ret # NoReturn =>
          (pending # None <=> (ret = PollPending /\ Last(trace).op = "fut"))
    /\ pending # None => Last(trace) = FutEv(pending, PollPending)

C14_Witness ==
    /\ ret = PollPending
    /\ Last(trace).op = "stream"
    /\ Len(trace) > 1
    /\ pending = None

\* The futures the next call polls are the one in the slot, first, or ones it
\* creates itself.
NextCallPollsOnlyLiveFutures ==
    \A i \in DOMAIN trace' :
        trace'[i].op = "fut" =>
            \/ trace'[i].id > Len(fcalls)
            \/ i = 1 /\ pending # None /\ trace'[i].id = pending[1].id

\* C15: a future is not polled again once it has answered Ready: whatever the
\* result, the slot is empty right after; within a call no future is polled
\* twice, and a later call polls only the future left in the slot, whose last
\* answer was "not ready", and futures of its own.
C15_NoPollAfterReady ==
    /\ [](\A i \in DOMAIN trace :
             trace[i].op = "fut" =>
                 /\ trace[i].slot # None
                 /\ trace[i].ans \in {PollPending, trace[i].slot[1].res}
                 /\ trace[i].ans # PollPending =>
                       IF i < Len(trace) THEN trace[i + 1].slot = None
                       ELSE pending = None
                 /\ \A j \in DOMAIN trace :
                       (j > i /\ trace[j].op = "fut") => trace[j].id > trace[i].id)
    /\ [](pending # None => Last(trace) = FutEv(pending, PollPending))
    /\ [][NextCallPollsOnlyLiveFutures]_vars

C15_Witness ==
    /\ Len(trace) >= 4
    /\ trace[1].op = "fut"
    /\ trace[1].ans.tag = "None"
    /\ Last(trace).op = "fut"
    /\ Last(trace).ans.tag = "Some"

\* The first n calls of a run in which every collaborator is always ready,
\* each as the loop's state at its return.
RECURSIVE ReadyRun(_, _)
ReadyRun(c, n) ==
    IF n = 0 THEN << >>
    ELSE LET r == poll_loop([c EXCEPT !.trace = << >>, !.polls = 0, !.ret = NoReturn], 0)
         IN  << r >> \o ReadyRun(r, n - 1)

Fresh == [stream |-> S, f |-> f, pending |-> None, fcalls |-> << >>,
          trace |-> << >>, polls |-> 0, ret |-> NoReturn]

\* C16: whatever the collaborators' "not ready" answers, the Ready returns so
\* far are those of the run that never suspends, in the same order; after
\* each Ready return the upstream and the callback are where that run has
\* them.
C16_SuspensionInvisible ==
    LET n   == Len(out)
        run == ReadyRun(Fresh, n)
    IN  /\ out = [i \in 1 .. n |-> run[i].ret]
        /\ (n > 0 /\ ret # PollPending) =>
              (stream = run[n].stream /\ fcalls = run[n].fcalls /\ pending = run[n].pending)

C16_Witness ==
    /\ stalls < MaxStalls
    /\ Len(out) >= 2
    /\ trace[1].op = "fut"
    /\ out[1].tag = "Ok"
    /\ Last(out).tag = "Err"

\* What a call has done so far: upstream polls, items received, futures that
\* resolved Ok(None).
StreamPolls(t) == Cardinality({i \in DOMAIN t : t[i].op = "stream"})
ItemsTaken(t) ==
    Cardinality({i \in DOMAIN t : t[i].op = "stream" /\ t[i].ans.tag \in {"Ok", "Err"}})
Drops(t) == Cardinality({i \in DOMAIN t : t[i].op = "fut" /\ t[i].ans.tag = "None"})

\* An upstream of Ok items only, all of which the callback drops.
AllDropped ==
    \A i \in DOMAIN S : S[i].tag = "Ok" /\ f[S[i].val] = OkNone

\* C17: a call takes at most one upstream item plus one for every future that
\* resolved Ok(None) in it (it polls the upstream exactly once per such future,
\* and once more if it began with the slot empty); on a finite upstream the
\* polls of a call are bounded by the script, so the call returns; on an
\* upstream that never ends, always ready, whose futures all resolve Ok(None)
\* at once, the call never returns.
C17_OneItemPerDrop ==
    /\ (trace # << >> /\ ret # NoReturn) =>
          /\ ItemsTaken(trace) <= 1 + Drops(trace)
          /\ StreamPolls(trace) = Drops(trace) + (IF trace[1].op = "fut" THEN 0 ELSE 1)
    /\ ~unbounded => StreamPolls(trace) <= Len(S) - Len(stream) + 1
    /\ (unbounded /\ AllDropped) =>
          /\ ret = NoReturn
          /\ out = << >>
          /\ Drops(trace) = Len(fcalls)
          /\ StreamPolls(trace) = Len(fcalls)

C17_Witness ==
    /\ unbounded
    /\ AllDropped
    /\ Len(fcalls) = MaxIter
    /\ Len(S) = MaxLoopLen
    /\ Drops(trace) = MaxIter

\* C18: on a finite upstream whose "not ready" answers run out, with poll_next
\* called again after every return, poll_next eventually returns
\* end-of-sequence, having yielded by then every kept value and every error
\* of the upstream, in order.
C18_EventuallyEnds ==
    <>(Ended /\ Yielded(out) = Project(f, UpToFirstEnd(S)))

C18_Witness ==
    /\ Ended
    /\ stalls = 0
    /\ Len(Yielded(out)) = MaxLoopLen
    /\ \E i \in DOMAIN out : out[i] = ReadyErr("bad")

====
